---------------------------- MODULE Spec2Model ----------------------------
(* Menu event dispatcher and zoom state of the Nexus desktop shell          *)
(* (client/src-tauri/src/lib.rs).                                          *)
(*                                                                         *)
(* The zoom level is a Rust f64.  An f64 of the range used here is kept    *)
(* exactly, as the integer number of units of 2^-55 it is worth, split in  *)
(* two limbs <<hi, lo>> of base 2^28 (value = (hi * 2^28 + lo) * 2^-55).   *)
(* Every f64 in [0.25, 4) is a whole number of such units.                 *)
EXTENDS Integers, Sequences, FiniteSets, TLC

\* ------------------------------------------------------------------ bounds
\* Number of host calls (eval, set_zoom, is_fullscreen, set_fullscreen)
\* that may fail in one run.
MaxFaults == 1

\* Length up to which a run of zoom_in (or zoom_out) dispatches that starts
\* at level 1.0 is counted.
MaxRun == 30

\* ------------------------------------------------------- f64 representation
LimbBase == 268435456

\* f64 literals of the source, in units of 2^-55.
F64_ONE == <<134217728, 0>>
F64_STEP == <<13421772, 214748365>>
F64_MAX == <<402653184, 0>>
F64_MIN == <<67108864, 0>>

\* Unit in the last place of the binade that holds a value with high limb hi.
Ulp(hi) ==
    IF hi < 33554432 THEN 1
    ELSE IF hi < 67108864 THEN 2
    ELSE IF hi < 134217728 THEN 4
    ELSE IF hi < 268435456 THEN 8
    ELSE 16

\* (Below 0.25 the only values that occur are 0.1 and 0.2, which are exact.)
\* Round an exact value to the nearest f64, ties to even.
RoundNearestEven(x) ==
    LET q == Ulp(x[1])
        r == x[2] % q
        down == x[2] - r
        up == (2 * r > q) \/ (2 * r = q /\ (down \div q) % 2 = 1)
        lo == IF up THEN down + q ELSE down
    IN  IF lo = LimbBase THEN <<x[1] + 1, 0>> ELSE <<x[1], lo>>

F64Add(a, b) ==
    LET lo == a[2] + b[2]
    IN  RoundNearestEven(IF lo >= LimbBase
                         THEN <<a[1] + b[1] + 1, lo - LimbBase>>
                         ELSE <<a[1] + b[1], lo>>)

F64Sub(a, b) ==
    LET lo == a[2] - b[2]
    IN  RoundNearestEven(IF lo < 0
                         THEN <<a[1] - b[1] - 1, lo + LimbBase>>
                         ELSE <<a[1] - b[1], lo>>)

\* k * a for a natural k, rounded once (k is exact as an f64).
RECURSIVE ExactTimes(_, _)
ExactTimes(a, k) ==
    IF k = 0 THEN <<0, 0>>
    ELSE LET p == ExactTimes(a, k - 1)
             lo == p[2] + a[2]
         IN  IF lo >= LimbBase THEN <<p[1] + a[1] + 1, lo - LimbBase>>
             ELSE <<p[1] + a[1], lo>>

F64MulNat(a, k) == RoundNearestEven(ExactTimes(a, k))

F64Lt(a, b) == a[1] < b[1] \/ (a[1] = b[1] /\ a[2] < b[2])

F64Le(a, b) == a = b \/ F64Lt(a, b)

F64Min(a, b) == IF F64Lt(b, a) THEN b ELSE a

F64Max(a, b) == IF F64Lt(a, b) THEN b ELSE a

\* ------------------------------------------------------------------- state
VARIABLES
    zoom_level,     \* the f64 behind Arc<Mutex<f64>>
    scale,          \* content scale of the main window (set by set_zoom)
    fullscreen,     \* fullscreen flag of the main window
    devtools_open,  \* developer tools panel of the main window
    dispatcher,     \* "idle" while the handler is registered and alive
    faults,         \* failed host calls so far
    ev,             \* the last handler invocation: inputs and requests
    run,            \* history: zoom dispatches since the level was set to 1.0
    pair,           \* history: repeated firing of one toggle identity
    boot,           \* the setup closure: position, inputs, menu under construction
    lock,           \* holder of the zoom Mutex, or "free"
    thr,            \* overlapping handler invocations: position and locals
    lin             \* history: the state a one-at-a-time execution would have

vars == <<zoom_level, scale, fullscreen, devtools_open, dispatcher, faults,
          ev, run, pair, boot, lock, thr, lin>>

\* Identities of the custom menu items, and one identity outside the table.
MenuIds == {"reload", "toggle_devtools", "zoom_in", "zoom_out", "zoom_reset",
            "toggle_fullscreen", "check_updates"}

FiredIds == MenuIds \cup {"quit"}

ZoomIds == {"zoom_in", "zoom_out", "zoom_reset"}

NoScale == <<>>

NoEvent ==
    [id |-> "none", window |-> FALSE, r1 |-> TRUE, r2 |-> TRUE, hook |-> FALSE,
     zoom_req |-> NoScale, fs_req |-> "none", dev_req |-> "none",
     script |-> "none", hook_calls |-> 0, surfaced |-> FALSE]

NoRun == [op |-> "none", n |-> 0]

NoPair == [n |-> 0, before1 |-> FALSE, before2 |-> FALSE, clean2 |-> FALSE]

\* ------------------------------------------------------ menu construction
Versions == {"0.1.0", "0.2.0"}

Builtin(name) == [kind |-> "builtin", id |-> name, label |-> "", accel |-> ""]

Separator == [kind |-> "separator", id |-> "", label |-> "", accel |-> ""]

\* MenuItemBuilder::new(label).id(id).accelerator(accel)
Custom(id, label, accel) ==
    [kind |-> "custom", id |-> id, label |-> label, accel |-> accel]

Submenu(label, items) == [label |-> label, items |-> items]

file_menu == Submenu("File", <<Builtin("quit")>>)

edit_menu ==
    Submenu("Edit", <<Builtin("undo"), Builtin("redo"), Separator,
                      Builtin("cut"), Builtin("copy"), Builtin("paste"),
                      Separator, Builtin("select_all")>>)

reload_item == Custom("reload", "Reload", "CmdOrCtrl+R")

devtools_item ==
    Custom("toggle_devtools", "Toggle Developer Tools", "CmdOrCtrl+Shift+I")

zoom_in_item == Custom("zoom_in", "Zoom In", "CmdOrCtrl+=")

zoom_out_item == Custom("zoom_out", "Zoom Out", "CmdOrCtrl+-")

\* Variant: the item is given the identity of its neighbour.
zoom_reset_item_SameIdAsZoomOut == Custom("zoom_out", "Reset Zoom", "CmdOrCtrl+0")

zoom_reset_item == Custom("zoom_reset", "Reset Zoom", "CmdOrCtrl+0")

fullscreen_item == Custom("toggle_fullscreen", "Toggle Fullscreen", "F11")

check_updates_item == Custom("check_updates", "Check for Updates...", "")

\* The value the k-th construction of the setup closure yields, given the
\* values built before it (built[k] is the k-th of them).
view_menu(built) ==
    Submenu("View", <<built[3], built[4], Separator, built[5], built[6],
                      built[7], Separator, built[8]>>)

help_menu(built, version) ==
    Submenu("Help", <<built[10], Separator,
                      [kind |-> "builtin", id |-> "about", label |-> "Nexus",
                       accel |-> version]>>)

menu(built) == <<built[1], built[2], built[9], built[11]>>

BuildCount == 12

BuildUnit(k, built, version) ==
    CASE k = 1 -> file_menu
      [] k = 2 -> edit_menu
      [] k = 3 -> reload_item
      [] k = 4 -> devtools_item
      [] k = 5 -> zoom_in_item
      [] k = 6 -> zoom_out_item
      [] k = 7 -> zoom_reset_item
      [] k = 8 -> fullscreen_item
      [] k = 9 -> view_menu(built)
      [] k = 10 -> check_updates_item
      [] k = 11 -> help_menu(built, version)
      [] k = 12 -> menu(built)

\* All twelve constructions in the order of the setup closure.
RECURSIVE BuildAll(_, _)
BuildAll(k, version) ==
    IF k = 0 THEN <<>>
    ELSE LET built == BuildAll(k - 1, version)
         IN  Append(built, BuildUnit(k, built, version))

\* The tree handed to app.set_menu.
MenuTree(version) == BuildAll(BuildCount, version)[BuildCount]

\* The arms of the match in on_menu_event, in source order.
MatchArms == <<"reload", "toggle_devtools", "zoom_in", "zoom_out",
               "zoom_reset", "toggle_fullscreen", "check_updates">>

NoMenu == <<>>

NoLevel == <<>>

\* The setup closure before its first statement.
BootStart(linux, version) ==
    [pc |-> "log", linux |-> linux, version |-> version, built |-> <<>>,
     installed |-> NoMenu, bootstraps |-> 0, window |-> "unknown",
     settings |-> "unknown", media |-> FALSE, interceptor |-> FALSE,
     cause |-> "none"]

\* The setup closure after Ok(()) on a Linux build whose webview has a
\* settings object.
BootDone ==
    [BootStart(TRUE, "0.1.0") EXCEPT
        !.pc = "running",
        !.installed = MenuTree("0.1.0"), !.bootstraps = 1,
        !.window = "some", !.settings = "some", !.media = TRUE,
        !.interceptor = TRUE]

\* -------------------------------------------------- overlapping invocations
Threads == {"t1", "t2"}

IdleThread == [pc |-> "idle", id |-> "none", level |-> NoLevel, flag |-> FALSE]

NoLin == [level |-> F64_ONE, fullscreen |-> FALSE, devtools |-> FALSE,
          zooms |-> FALSE]

Init ==
    /\ zoom_level = F64_ONE
    /\ scale = F64_ONE
    /\ fullscreen = FALSE
    /\ devtools_open = FALSE
    /\ dispatcher = "idle"
    /\ faults = 0
    /\ ev = NoEvent
    /\ run = NoRun
    /\ pair = NoPair
    /\ boot = BootDone
    /\ lock = "free"
    /\ thr = [t \in Threads |-> IdleThread]
    /\ lin = NoLin

\* ------------------------------------------------------- host and content
\* `let _ = <fallible call>`: the Result is dropped, nothing is surfaced.
Discard(ok) == FALSE

\* Variant: the read value is not used, the flag is taken to be false.
IsFullscreenOrFalse_Ignored(ok) == FALSE

\* Variant: unwrap_or(true).
IsFullscreenOrTrue(ok) == IF ok THEN fullscreen ELSE TRUE

\* window.is_fullscreen().unwrap_or(false)
IsFullscreenOrFalse(ok) == IF ok THEN fullscreen ELSE FALSE

\* Variant: the script calls the hook without testing it first.
CheckUpdatesScript_Unguarded(hook) == 1

\* "window.__NEXUS_CHECK_UPDATES && window.__NEXUS_CHECK_UPDATES()":
\* number of calls of the hook when the script runs in the content layer.
CheckUpdatesScript(hook) == IF hook THEN 1 ELSE 0

\* A host call may fail only while the fault budget lasts.
CanFail(k) == faults + k <= MaxFaults

Failed(ok) == IF ok THEN 0 ELSE 1

\* ----------------------------------------------------------------- history
RunAfter(id) ==
    IF id = "zoom_reset" THEN NoRun
    ELSE IF run.op \in {"none", id}
         THEN [op |-> id, n |-> IF run.n < MaxRun THEN run.n + 1 ELSE MaxRun]
         ELSE [op |-> "mixed", n |-> 0]

\* before1: the toggled flag before this firing; before2 and clean2: the
\* flag before the previous firing of the same identity, and whether that
\* firing found the window and had no failing host call.
PairAfter(id, flag) ==
    IF ev.id = id
    THEN [n |-> 2, before1 |-> flag, before2 |-> pair.before1,
          clean2 |-> ev.window /\ ev.r1 /\ ev.r2]
    ELSE [n |-> 1, before1 |-> flag, before2 |-> FALSE, clean2 |-> FALSE]

History(id, win) ==
    /\ UNCHANGED <<boot, lock, thr, lin>>
    /\ run' = IF win /\ id \in ZoomIds THEN RunAfter(id) ELSE run
    /\ pair' = IF id = "toggle_devtools" THEN PairAfter(id, devtools_open)
               ELSE IF id = "toggle_fullscreen" THEN PairAfter(id, fullscreen)
               ELSE NoPair

\* ------------------------------------------------------------ the handler
\* Variant: the zoom_in arm sits outside the window guard.
Dropped_ZoomAnyway(id) ==
    /\ dispatcher = "idle"
    /\ zoom_level' = IF id = "zoom_in"
                     THEN F64Min(F64Add(zoom_level, F64_STEP), F64_MAX)
                     ELSE zoom_level
    /\ ev' = [NoEvent EXCEPT !.id = id]
    /\ History(id, FALSE)
    /\ UNCHANGED <<scale, fullscreen, devtools_open, dispatcher, faults>>

\* if let Some(window) = app_handle.get_webview_window("main") fails:
\* the closure returns without doing anything.
Dropped(id) ==
    /\ dispatcher = "idle"
    /\ ev' = [NoEvent EXCEPT !.id = id]
    /\ History(id, FALSE)
    /\ UNCHANGED <<zoom_level, scale, fullscreen, devtools_open, dispatcher,
                   faults>>

\* Variant: reload also resets the zoom level.
Reload_ResetsZoom(r1) ==
    /\ dispatcher = "idle"
    /\ CanFail(Failed(r1))
    /\ faults' = faults + Failed(r1)
    /\ zoom_level' = F64_ONE
    /\ ev' = [NoEvent EXCEPT !.id = "reload", !.window = TRUE, !.r1 = r1,
                             !.script = "reload",
                             !.surfaced = Discard(r1)]
    /\ dispatcher' = IF Discard(r1) THEN "crashed" ELSE "idle"
    /\ History("reload", TRUE)
    /\ UNCHANGED <<scale, fullscreen, devtools_open>>

\* "reload" => { let _ = window.eval("window.location.reload()"); }
Reload(r1) ==
    /\ dispatcher = "idle"
    /\ CanFail(Failed(r1))
    /\ faults' = faults + Failed(r1)
    /\ ev' = [NoEvent EXCEPT !.id = "reload", !.window = TRUE, !.r1 = r1,
                             !.script = "reload",
                             !.surfaced = Discard(r1)]
    /\ dispatcher' = IF Discard(r1) THEN "crashed" ELSE "idle"
    /\ History("reload", TRUE)
    /\ UNCHANGED <<zoom_level, scale, fullscreen, devtools_open>>

\* Variant: the panel is opened whatever its state.
ToggleDevtools_AlwaysOpen ==
    /\ dispatcher = "idle"
    /\ devtools_open' = TRUE
    /\ ev' = [NoEvent EXCEPT !.id = "toggle_devtools", !.window = TRUE,
                             !.dev_req = "open"]
    /\ History("toggle_devtools", TRUE)
    /\ UNCHANGED <<zoom_level, scale, fullscreen, dispatcher, faults>>

\* "toggle_devtools" => if open { close_devtools() } else { open_devtools() }
ToggleDevtools ==
    /\ dispatcher = "idle"
    /\ devtools_open' = IF devtools_open THEN FALSE ELSE TRUE
    /\ ev' = [NoEvent EXCEPT !.id = "toggle_devtools", !.window = TRUE,
                             !.dev_req = IF devtools_open THEN "close"
                                         ELSE "open"]
    /\ History("toggle_devtools", TRUE)
    /\ UNCHANGED <<zoom_level, scale, fullscreen, dispatcher, faults>>

\* Variant: no upper clamp.
ZoomInLevel_NoClamp(level) == F64Add(level, F64_STEP)

\* (*level + 0.1).min(3.0)
ZoomInLevel(level) == F64Min(F64Add(level, F64_STEP), F64_MAX)

\* (*level - 0.1).max(0.5)
ZoomOutLevel(level) == F64Max(F64Sub(level, F64_STEP), F64_MIN)

\* Variant: the level is left as it is.
ZoomResetLevel_Keep(level) == level

\* *level = 1.0
ZoomResetLevel(level) == F64_ONE

\* Variant: the level is stored only when set_zoom succeeds.
ZoomArm_OnSuccessOnly(id, level, req, r1) ==
    /\ dispatcher = "idle"
    /\ CanFail(Failed(r1))
    /\ faults' = faults + Failed(r1)
    /\ zoom_level' = IF r1 THEN level ELSE zoom_level
    /\ scale' = IF r1 THEN req ELSE scale
    /\ ev' = [NoEvent EXCEPT !.id = id, !.window = TRUE, !.r1 = r1,
                             !.zoom_req = req,
                             !.surfaced = Discard(r1)]
    /\ dispatcher' = IF Discard(r1) THEN "crashed" ELSE "idle"
    /\ History(id, TRUE)
    /\ UNCHANGED <<fullscreen, devtools_open>>

\* The three zoom arms share their shape: lock, assign *level, set_zoom.
ZoomArm(id, level, req, r1) ==
    /\ dispatcher = "idle"
    /\ CanFail(Failed(r1))
    /\ faults' = faults + Failed(r1)
    /\ zoom_level' = level
    /\ scale' = IF r1 THEN req ELSE scale
    /\ ev' = [NoEvent EXCEPT !.id = id, !.window = TRUE, !.r1 = r1,
                             !.zoom_req = req,
                             !.surfaced = Discard(r1)]
    /\ dispatcher' = IF Discard(r1) THEN "crashed" ELSE "idle"
    /\ History(id, TRUE)
    /\ UNCHANGED <<fullscreen, devtools_open>>

\* *level = (*level + 0.1).min(3.0); let _ = window.set_zoom(*level);
ZoomIn(r1) ==
    ZoomArm("zoom_in", ZoomInLevel(zoom_level), ZoomInLevel(zoom_level), r1)

\* *level = (*level - 0.1).max(0.5); let _ = window.set_zoom(*level);
ZoomOut(r1) ==
    ZoomArm("zoom_out", ZoomOutLevel(zoom_level), ZoomOutLevel(zoom_level), r1)

\* *level = 1.0; let _ = window.set_zoom(1.0);
ZoomReset(r1) ==
    ZoomArm("zoom_reset", ZoomResetLevel(zoom_level), F64_ONE, r1)

\* "toggle_fullscreen" => { let is_fs = window.is_fullscreen().unwrap_or(false);
\*                          let _ = window.set_fullscreen(!is_fs); }
ToggleFullscreen(r1, r2) ==
    LET is_fs == IsFullscreenOrFalse(r1)
    IN  /\ dispatcher = "idle"
        /\ CanFail(Failed(r1) + Failed(r2))
        /\ faults' = faults + Failed(r1) + Failed(r2)
        /\ fullscreen' = IF r2 THEN ~is_fs ELSE fullscreen
        /\ ev' = [NoEvent EXCEPT !.id = "toggle_fullscreen", !.window = TRUE,
                                 !.r1 = r1, !.r2 = r2,
                                 !.fs_req = IF is_fs THEN "off" ELSE "on",
                                 !.surfaced = Discard(r2)]
        /\ dispatcher' = IF Discard(r2) THEN "crashed" ELSE "idle"
        /\ History("toggle_fullscreen", TRUE)
        /\ UNCHANGED <<zoom_level, scale, devtools_open>>

\* "check_updates" => { let _ = window.eval("window.__NEXUS_CHECK_UPDATES && ..."); }
CheckUpdates(r1, hook) ==
    /\ dispatcher = "idle"
    /\ CanFail(Failed(r1))
    /\ faults' = faults + Failed(r1)
    /\ ev' = [NoEvent EXCEPT !.id = "check_updates", !.window = TRUE,
                             !.r1 = r1, !.hook = hook,
                             !.script = "check_updates",
                             !.hook_calls = IF r1 THEN CheckUpdatesScript(hook)
                                            ELSE 0,
                             !.surfaced = Discard(r1)]
    /\ dispatcher' = IF Discard(r1) THEN "crashed" ELSE "idle"
    /\ History("check_updates", TRUE)
    /\ UNCHANGED <<zoom_level, scale, fullscreen, devtools_open>>

\* Variant: the default arm resets the zoom.
Ignored_Reset(id) ==
    /\ id \notin MenuIds
    /\ ZoomArm(id, F64_ONE, F64_ONE, TRUE)

\* _ => {}
Ignored(id) ==
    /\ dispatcher = "idle"
    /\ id \notin MenuIds
    /\ ev' = [NoEvent EXCEPT !.id = id, !.window = TRUE]
    /\ History(id, TRUE)
    /\ UNCHANGED <<zoom_level, scale, fullscreen, devtools_open, dispatcher,
                   faults>>

Next ==
    \/ \E id \in FiredIds : Dropped(id)
    \/ \E r1 \in BOOLEAN : Reload(r1)
    \/ ToggleDevtools
    \/ \E r1 \in BOOLEAN : ZoomIn(r1)
    \/ \E r1 \in BOOLEAN : ZoomOut(r1)
    \/ \E r1 \in BOOLEAN : ZoomReset(r1)
    \/ \E r1, r2 \in BOOLEAN : ToggleFullscreen(r1, r2)
    \/ \E r1, hook \in BOOLEAN : CheckUpdates(r1, hook)
    \/ \E id \in FiredIds : Ignored(id)

Spec == Init /\ [][Next]_vars

\* ------------------------------------------------------ the setup closure
DispatchVars == <<zoom_level, scale, fullscreen, devtools_open, dispatcher,
                  faults, ev, run, pair, lock, thr, lin>>

Abort(cause) == boot' = [boot EXCEPT !.pc = "aborted", !.cause = cause]

\* if cfg!(debug_assertions) { app.handle().plugin(...)?; }
LogPlugin(debug, ok) ==
    /\ boot.pc = "log"
    /\ IF debug /\ ~ok THEN Abort("log")
       ELSE boot' = [boot EXCEPT !.pc = "bootstrap"]
    /\ UNCHANGED DispatchVars

\* Variant: a missing main window is skipped instead of unwrapped.
Bootstrap_SkipsMissingWindow(win, wv_ok, settings) ==
    /\ boot.pc = "bootstrap"
    /\ IF ~boot.linux THEN boot' = [boot EXCEPT !.pc = "build"]
       ELSE IF ~win THEN boot' = [boot EXCEPT !.pc = "build", !.window = "none"]
       ELSE IF ~wv_ok THEN boot' = [boot EXCEPT !.pc = "aborted",
                                                !.cause = "webview",
                                                !.window = "some"]
       ELSE boot' = [boot EXCEPT !.pc = "build", !.window = "some",
                                 !.settings = IF settings THEN "some" ELSE "none",
                                 !.media = settings,
                                 !.interceptor = TRUE,
                                 !.bootstraps = boot.bootstraps + 1]
    /\ UNCHANGED DispatchVars

\* #[cfg(target_os = "linux")] { get_webview_window("main").unwrap();
\*   with_webview(|webview| { if let Some(settings) = ... { three setters }
\*                            connect_permission_request(allow) })?; }
Bootstrap(win, wv_ok, settings) ==
    /\ boot.pc = "bootstrap"
    /\ IF ~boot.linux THEN boot' = [boot EXCEPT !.pc = "build"]
       ELSE IF ~win THEN boot' = [boot EXCEPT !.pc = "aborted",
                                              !.cause = "window",
                                              !.window = "none"]
       ELSE IF ~wv_ok THEN boot' = [boot EXCEPT !.pc = "aborted",
                                                !.cause = "webview",
                                                !.window = "some"]
       ELSE boot' = [boot EXCEPT !.pc = "build", !.window = "some",
                                 !.settings = IF settings THEN "some" ELSE "none",
                                 !.media = settings,
                                 !.interceptor = TRUE,
                                 !.bootstraps = boot.bootstraps + 1]
    /\ UNCHANGED DispatchVars

\* Variant: the Result of a construction is dropped instead of propagated.
BuildStep_IgnoresError(ok) ==
    LET k == Len(boot.built) + 1
    IN  /\ boot.pc = "build"
        /\ boot' = [boot EXCEPT
                      !.built = Append(boot.built,
                                       BuildUnit(k, boot.built, boot.version)),
                      !.cause = IF ok THEN boot.cause ELSE "menu",
                      !.pc = IF k = BuildCount THEN "install" ELSE "build"]
        /\ UNCHANGED DispatchVars

\* One `...build(app)?` or `.build()?` of lines 45 to 122.
BuildStep(ok) ==
    LET k == Len(boot.built) + 1
    IN  /\ boot.pc = "build"
        /\ IF ~ok THEN Abort("menu")
           ELSE boot' = [boot EXCEPT
                           !.built = Append(boot.built,
                                            BuildUnit(k, boot.built, boot.version)),
                           !.pc = IF k = BuildCount THEN "install" ELSE "build"]
        /\ UNCHANGED DispatchVars

\* app.set_menu(menu)?;
SetMenu(ok) ==
    /\ boot.pc = "install"
    /\ IF ~ok THEN Abort("set_menu")
       ELSE boot' = [boot EXCEPT !.pc = "register",
                                 !.installed = boot.built[BuildCount]]
    /\ UNCHANGED DispatchVars

\* let zoom_level = Arc::new(Mutex::new(1.0_f64)); app.on_menu_event(...); Ok(())
Register ==
    /\ boot.pc = "register"
    /\ boot' = [boot EXCEPT !.pc = "running", !.built = <<>>]
    /\ zoom_level' = F64_ONE
    /\ dispatcher' = "idle"
    /\ UNCHANGED <<scale, fullscreen, devtools_open, faults, ev, run, pair,
                   lock, thr, lin>>

InitStartup ==
    /\ zoom_level = NoLevel
    /\ scale = F64_ONE
    /\ fullscreen = FALSE
    /\ devtools_open = FALSE
    /\ dispatcher = "unregistered"
    /\ faults = 0
    /\ ev = NoEvent
    /\ run = NoRun
    /\ pair = NoPair
    /\ \E linux \in BOOLEAN, version \in Versions :
           boot = BootStart(linux, version)
    /\ lock = "free"
    /\ thr = [t \in Threads |-> IdleThread]
    /\ lin = NoLin

NextStartup ==
    \/ \E debug, ok \in BOOLEAN : LogPlugin(debug, ok)
    \/ \E win, wv_ok, settings \in BOOLEAN : Bootstrap(win, wv_ok, settings)
    \/ \E ok \in BOOLEAN : BuildStep(ok)
    \/ \E ok \in BOOLEAN : SetMenu(ok)
    \/ Register
    \/ Next

SpecStartup == InitStartup /\ [][NextStartup]_vars

\* ------------------------------------------- overlapping handler invocations
\* The same closure, one step per lock operation, memory access and host
\* call, run by invocations that may overlap.  Host calls succeed here;
\* their failures are the subject of the one-at-a-time actions above.
SeqVars == <<ev, run, pair, boot, dispatcher, faults>>

MultiStepIds == {"zoom_in", "zoom_out", "zoom_reset", "toggle_fullscreen",
                 "toggle_devtools"}

Busy(t) == thr[t].pc # "idle"

InZoomArm(t) == thr[t].id \in ZoomIds

Holding(t) == thr[t].pc \in {"read", "write", "set_zoom", "unlock"}

LevelAfter(id, level) ==
    IF id = "zoom_in" THEN ZoomInLevel(level)
    ELSE IF id = "zoom_out" THEN ZoomOutLevel(level)
    ELSE ZoomResetLevel(level)

\* The closure is entered and its match selects an arm.  An arm with at
\* most one host call (reload, check_updates, the default arm) and an
\* invocation without window return at once.
CBegin(t, id, win) ==
    /\ dispatcher = "idle"
    /\ ~Busy(t)
    /\ thr' = IF win /\ id \in MultiStepIds
              THEN [thr EXCEPT ![t] =
                      [IdleThread EXCEPT
                         !.id = id,
                         !.pc = IF id \in ZoomIds THEN "lock"
                                ELSE IF id = "toggle_fullscreen" THEN "fs_read"
                                ELSE "dev_read"]]
              ELSE thr
    /\ lin' = IF ~win THEN lin
              ELSE IF id = "toggle_fullscreen"
              THEN [lin EXCEPT !.fullscreen = ~lin.fullscreen]
              ELSE IF id = "toggle_devtools"
              THEN [lin EXCEPT !.devtools = ~lin.devtools]
              ELSE lin
    /\ UNCHANGED <<zoom_level, scale, fullscreen, devtools_open, lock>>
    /\ UNCHANGED SeqVars

\* Variant: the lock is taken without waiting for it to be free.
CLock_NoWait(t) ==
    /\ thr[t].pc = "lock"
    /\ lock' = t
    /\ thr' = [thr EXCEPT ![t].pc = IF thr[t].id = "zoom_reset" THEN "write"
                                    ELSE "read"]
    /\ lin' = [lin EXCEPT !.level = LevelAfter(thr[t].id, lin.level),
                          !.zooms = TRUE]
    /\ UNCHANGED <<zoom_level, scale, fullscreen, devtools_open>>
    /\ UNCHANGED SeqVars

\* let mut level = zoom_level.lock().unwrap();
CLock(t) ==
    /\ thr[t].pc = "lock"
    /\ lock = "free"
    /\ lock' = t
    /\ thr' = [thr EXCEPT ![t].pc = IF thr[t].id = "zoom_reset" THEN "write"
                                    ELSE "read"]
    /\ lin' = [lin EXCEPT !.level = LevelAfter(thr[t].id, lin.level),
                          !.zooms = TRUE]
    /\ UNCHANGED <<zoom_level, scale, fullscreen, devtools_open>>
    /\ UNCHANGED SeqVars

\* the read of *level on the right-hand side
CRead(t) ==
    /\ thr[t].pc = "read"
    /\ thr' = [thr EXCEPT ![t].pc = "write", ![t].level = zoom_level]
    /\ UNCHANGED <<zoom_level, scale, fullscreen, devtools_open, lock, lin>>
    /\ UNCHANGED SeqVars

\* *level = ...
CWrite(t) ==
    /\ thr[t].pc = "write"
    /\ zoom_level' = LevelAfter(thr[t].id, thr[t].level)
    /\ thr' = [thr EXCEPT ![t].pc = "set_zoom", ![t].level = NoLevel]
    /\ UNCHANGED <<scale, fullscreen, devtools_open, lock, lin>>
    /\ UNCHANGED SeqVars

\* Variant: the guard is dropped before set_zoom is called.
CSetZoom_AfterUnlock(t) ==
    /\ thr[t].pc = "set_zoom"
    /\ IF lock = t
       THEN /\ lock' = "free"
            /\ thr' = [thr EXCEPT ![t].level = zoom_level]
            /\ UNCHANGED scale
       ELSE /\ scale' = IF thr[t].id = "zoom_reset" THEN F64_ONE
                        ELSE thr[t].level
            /\ thr' = [thr EXCEPT ![t] = IdleThread]
            /\ UNCHANGED lock
    /\ UNCHANGED <<zoom_level, fullscreen, devtools_open, lin>>
    /\ UNCHANGED SeqVars

\* let _ = window.set_zoom(*level);   (set_zoom(1.0) in the reset arm)
CSetZoom(t) ==
    /\ thr[t].pc = "set_zoom"
    /\ scale' = IF thr[t].id = "zoom_reset" THEN F64_ONE ELSE zoom_level
    /\ thr' = [thr EXCEPT ![t].pc = "unlock"]
    /\ UNCHANGED <<zoom_level, fullscreen, devtools_open, lock, lin>>
    /\ UNCHANGED SeqVars

\* Variant: the guard is leaked, the mutex stays locked.
CUnlock_Leaks(t) ==
    /\ thr[t].pc = "unlock"
    /\ thr' = [thr EXCEPT ![t] = IdleThread]
    /\ UNCHANGED <<zoom_level, scale, fullscreen, devtools_open, lock, lin>>
    /\ UNCHANGED SeqVars

\* end of the arm: the MutexGuard is dropped
CUnlock(t) ==
    /\ thr[t].pc = "unlock"
    /\ lock' = "free"
    /\ thr' = [thr EXCEPT ![t] = IdleThread]
    /\ UNCHANGED <<zoom_level, scale, fullscreen, devtools_open, lin>>
    /\ UNCHANGED SeqVars

\* let is_fs = window.is_fullscreen().unwrap_or(false);
CFsRead(t) ==
    /\ thr[t].pc = "fs_read"
    /\ thr' = [thr EXCEPT ![t].pc = "fs_set",
                          ![t].flag = IsFullscreenOrFalse(TRUE)]
    /\ UNCHANGED <<zoom_level, scale, fullscreen, devtools_open, lock, lin>>
    /\ UNCHANGED SeqVars

\* let _ = window.set_fullscreen(!is_fs);
CFsSet(t) ==
    /\ thr[t].pc = "fs_set"
    /\ fullscreen' = ~thr[t].flag
    /\ thr' = [thr EXCEPT ![t] = IdleThread]
    /\ UNCHANGED <<zoom_level, scale, devtools_open, lock, lin>>
    /\ UNCHANGED SeqVars

\* if window.is_devtools_open()
CDevRead(t) ==
    /\ thr[t].pc = "dev_read"
    /\ thr' = [thr EXCEPT ![t].pc = "dev_set", ![t].flag = devtools_open]
    /\ UNCHANGED <<zoom_level, scale, fullscreen, devtools_open, lock, lin>>
    /\ UNCHANGED SeqVars

\* { window.close_devtools(); } else { window.open_devtools(); }
CDevSet(t) ==
    /\ thr[t].pc = "dev_set"
    /\ devtools_open' = ~thr[t].flag
    /\ thr' = [thr EXCEPT ![t] = IdleThread]
    /\ UNCHANGED <<zoom_level, scale, fullscreen, lock, lin>>
    /\ UNCHANGED SeqVars

\* The steps of an invocation that is under way.
CStep(t) ==
    \/ CLock(t)
    \/ CRead(t)
    \/ CWrite(t)
    \/ CSetZoom(t)
    \/ CUnlock(t)
    \/ CFsRead(t)
    \/ CFsSet(t)
    \/ CDevRead(t)
    \/ CDevSet(t)

NextConc ==
    \/ \E t \in Threads, id \in FiredIds, win \in BOOLEAN : CBegin(t, id, win)
    \/ \E t \in Threads : CStep(t)

SpecConc == Init /\ [][NextConc]_vars

\* The identifiers that arrive in the fair specification: every arm of the
\* match but zoom_in, whose arm takes and releases the mutex exactly as the
\* zoom_out arm does, so that the level stays between 0.5 and 1.0.
LiveIds == FiredIds \ {"zoom_in"}

NextLive ==
    \/ \E t \in Threads, id \in LiveIds, win \in BOOLEAN : CBegin(t, id, win)
    \/ \E t \in Threads : CStep(t)

\* Every invocation under way keeps taking steps (the threads that run the
\* closure are scheduled), and an invocation that waits for the mutex gets
\* it if it is free again and again (fair hand-over of the mutex); nothing
\* is assumed about when menu events arrive.
SpecConcFair ==
    /\ Init
    /\ [][NextLive]_vars
    /\ \A t \in Threads : WF_vars(CStep(t)) /\ SF_vars(CLock(t))

TypeOK ==
    /\ zoom_level \in Nat \X Nat
    /\ scale \in Nat \X Nat
    /\ fullscreen \in BOOLEAN
    /\ devtools_open \in BOOLEAN
    /\ faults \in 0..MaxFaults
    /\ ev.id \in FiredIds \cup {"none"}
    /\ run.n \in 0..MaxRun

\* ================================================================== claims

\* C1: in every reachable state the zoom level lies in [0.5, 3.0].
C1_ZoomInRange == F64Le(F64_MIN, zoom_level) /\ F64Le(zoom_level, F64_MAX)

\* A run of more than twenty zoom_in dispatches from 1.0: the clamp acted.
C1_Witness ==
    /\ ev.id = "zoom_in" /\ ev.window
    /\ run.op = "zoom_in" /\ run.n >= 21
    /\ zoom_level = F64_MAX

\* C2 (as stated): after k consecutive zoom_in dispatches from 1.0 the level
\* is min(1.0 + 0.1 * k, 3.0), hence 3.0 after 30 of them.
C2_Original ==
    run.op = "zoom_in" =>
        zoom_level = F64Min(F64Add(F64_ONE, F64MulNat(F64_STEP, run.n)), F64_MAX)

\* C3 (as stated): five zoom_out dispatches from 1.0 give 0.5, a sixth
\* leaves 0.5, and a zoom_reset gives 1.0.
C3_Original ==
    /\ (run.op = "zoom_out" /\ run.n >= 5) => zoom_level = F64_MIN
    /\ (ev.id = "zoom_reset" /\ ev.window) => zoom_level = F64_ONE

\* C4: a zoom_reset dispatch that finds the window leaves the level at
\* exactly 1.0 and requests scale 1.0, whatever the level was before.
C4_ZoomReset ==
    (ev.id = "zoom_reset" /\ ev.window) =>
        (zoom_level = F64_ONE /\ ev.zoom_req = F64_ONE)

\* A reset from level 3.0 whose set_zoom failed: the scale still shows 3.0.
C4_Witness ==
    /\ ev.id = "zoom_reset" /\ ev.window /\ ~ev.r1
    /\ scale = F64_MAX
    /\ zoom_level = F64_ONE

\* C5: an identity outside the dispatch table changes neither the zoom level
\* nor the fullscreen flag, the devtools flag or the scale, surfaces no
\* error and leaves the dispatcher alive.
C5_UnknownIsNoOp ==
    [][ev'.id \notin MenuIds =>
         /\ UNCHANGED <<zoom_level, scale, fullscreen, devtools_open>>
         /\ ~ev'.surfaced
         /\ dispatcher' = "idle"]_vars

C5_Witness ==
    /\ ev.id = "quit" /\ ev.window
    /\ zoom_level # F64_ONE /\ fullscreen /\ devtools_open

\* C6: an event fired while the main window cannot be resolved is dropped:
\* no request reaches the window, the zoom level and the window are left
\* as they are, nothing is surfaced; a zoom event that finds the window
\* right after a dropped event acts as usual.
C6_DroppedWithoutWindow ==
    [][/\ ~ev'.window =>
            /\ UNCHANGED <<zoom_level, scale, fullscreen, devtools_open>>
            /\ ev'.zoom_req = NoScale /\ ev'.fs_req = "none"
            /\ ev'.dev_req = "none" /\ ev'.script = "none"
            /\ ev'.hook_calls = 0
            /\ ~ev'.surfaced
            /\ dispatcher' = "idle"
       /\ (ev.id # "none" /\ ~ev.window /\ ev'.window /\ ev'.id = "zoom_in") =>
            zoom_level' = F64Min(F64Add(zoom_level, F64_STEP), F64_MAX)
       /\ (ev.id # "none" /\ ~ev.window /\ ev'.window /\ ev'.id = "zoom_reset") =>
            zoom_level' = F64_ONE]_vars

\* A zoom_in dropped after one zoom_in that was handled.
C6_Witness ==
    /\ ev.id = "zoom_in" /\ ~ev.window
    /\ run.op = "zoom_in" /\ run.n = 1
    /\ zoom_level # F64_ONE

\* C7: when set_zoom fails in a zoom arm the level is still set to the new
\* clamped value, the scale keeps its old value, nothing is surfaced and
\* the dispatcher stays alive.
C7_ScaleFailureKeepsLevel ==
    [][(ev'.id \in ZoomIds /\ ev'.window /\ ~ev'.r1) =>
         /\ zoom_level' =
              IF ev'.id = "zoom_in"
              THEN F64Min(F64Add(zoom_level, F64_STEP), F64_MAX)
              ELSE IF ev'.id = "zoom_out"
              THEN F64Max(F64Sub(zoom_level, F64_STEP), F64_MIN)
              ELSE F64_ONE
         /\ scale' = scale
         /\ ~ev'.surfaced
         /\ dispatcher' = "idle"]_vars

C7_Witness ==
    /\ ev.id = "zoom_out" /\ ev.window /\ ~ev.r1
    /\ zoom_level # scale

\* C8 (as stated): two consecutive firings of toggle_devtools that start
\* with the panel closed open it and then close it.
C8_Original ==
    (ev.id = "toggle_devtools" /\ pair.n = 2 /\ ~pair.before2) =>
        (pair.before1 /\ ~devtools_open)

\* C8 (amended): the same, provided the main window is resolvable at both
\* firings.
C8_ToggleDevtoolsTwice ==
    (/\ ev.id = "toggle_devtools" /\ pair.n = 2 /\ ~pair.before2
     /\ pair.clean2 /\ ev.window) =>
        (pair.before1 /\ ~devtools_open)

C8_Witness ==
    /\ ev.id = "toggle_devtools" /\ pair.n = 2 /\ ~pair.before2
    /\ pair.clean2 /\ ev.window
    /\ pair.before1 /\ ~devtools_open

\* C9 (as stated): two consecutive firings of toggle_fullscreen that start
\* with the window not fullscreen end with the window not fullscreen.
C9_Original ==
    (ev.id = "toggle_fullscreen" /\ pair.n = 2 /\ ~pair.before2) =>
        ~fullscreen

\* C9 (amended): the same, provided that at both firings the main window is
\* resolvable and is_fullscreen and set_fullscreen succeed.
C9_ToggleFullscreenTwice ==
    (/\ ev.id = "toggle_fullscreen" /\ pair.n = 2 /\ ~pair.before2
     /\ pair.clean2 /\ ev.window /\ ev.r1 /\ ev.r2) =>
        (pair.before1 /\ ~fullscreen)

C9_Witness ==
    /\ ev.id = "toggle_fullscreen" /\ pair.n = 2 /\ ~pair.before2
    /\ pair.clean2 /\ ev.window /\ ev.r1 /\ ev.r2
    /\ pair.before1 /\ ~fullscreen

\* C10 (as stated): a check_updates event with the hook undefined has no
\* effect and surfaces nothing; with the hook defined the hook is called
\* exactly once.
C10_Original ==
    [][ev'.id = "check_updates" =>
         /\ UNCHANGED <<zoom_level, scale, fullscreen, devtools_open>>
         /\ ~ev'.surfaced
         /\ dispatcher' = "idle"
         /\ ev'.hook_calls = IF ev'.hook THEN 1 ELSE 0]_vars

\* C10 (amended): a check_updates event has no effect on zoom, fullscreen
\* and devtools and surfaces nothing; the hook is called at most once, and
\* it is called exactly when it is defined and the script was delivered
\* (the window was resolved and eval succeeded).
C10_CheckUpdates ==
    [][ev'.id = "check_updates" =>
         /\ UNCHANGED <<zoom_level, scale, fullscreen, devtools_open>>
         /\ ~ev'.surfaced
         /\ dispatcher' = "idle"
         /\ ev'.hook_calls \in {0, 1}
         /\ (ev'.hook_calls = 1) <=> (ev'.window /\ ev'.r1 /\ ev'.hook)]_vars

\* check_updates delivered while the hook is undefined, away from the
\* initial state.
C10_Witness ==
    /\ ev.id = "check_updates" /\ ev.window /\ ev.r1 /\ ~ev.hook
    /\ ev.hook_calls = 0
    /\ zoom_level # F64_ONE /\ fullscreen

\* C16: toggle_fullscreen requests the negation of the flag it read, taking
\* the flag as false when the read fails, so an unreadable flag always gives
\* a request for fullscreen = true; a failing set is discarded and leaves
\* the flag as it was.
C16_FullscreenReadDefault ==
    [][(ev'.id = "toggle_fullscreen" /\ ev'.window) =>
         /\ ev'.fs_req = IF ev'.r1 /\ fullscreen THEN "off" ELSE "on"
         /\ ~ev'.r1 => ev'.fs_req = "on"
         /\ ev'.r2 => fullscreen' = (ev'.fs_req = "on")
         /\ ~ev'.r2 => fullscreen' = fullscreen
         /\ ~ev'.surfaced
         /\ dispatcher' = "idle"]_vars

\* The read failed while the window was fullscreen: fullscreen was requested
\* again and the window stays fullscreen.
C16_Witness ==
    /\ ev.id = "toggle_fullscreen" /\ ev.window /\ ~ev.r1
    /\ pair.before1
    /\ ev.fs_req = "on"
    /\ fullscreen

\* C17: the zoom level changes only in a zoom dispatch; zoom dispatches
\* leave the fullscreen and devtools flags alone; toggle_devtools leaves the
\* fullscreen flag alone and toggle_fullscreen the devtools flag.
C17_OwnActionOnly ==
    [][/\ zoom_level' # zoom_level => (ev'.id \in ZoomIds /\ ev'.window)
       /\ ev'.id \in {"reload", "toggle_devtools", "toggle_fullscreen",
                      "check_updates"} => zoom_level' = zoom_level
       /\ ev'.id \in ZoomIds => UNCHANGED <<fullscreen, devtools_open>>
       /\ ev'.id = "toggle_devtools" => fullscreen' = fullscreen
       /\ ev'.id = "toggle_fullscreen" => devtools_open' = devtools_open]_vars

\* A reload handled while level, fullscreen and devtools are all away from
\* their initial values.
C17_Witness ==
    /\ ev.id = "reload" /\ ev.window
    /\ zoom_level = F64_MAX /\ fullscreen /\ devtools_open

\* f64 nearest to 2.9 and to 0.6, in units of 2^-55.
F64_TWO_NINE == <<389231411, 53687088>>
F64_POINT_SIX == <<80530636, 214748364>>

\* C20 (as stated): from every reachable level at most 2.9, zoom_in then
\* zoom_out restores the level; from every reachable level at least 0.6,
\* zoom_out then zoom_in restores it; from 3.0, zoom_in then zoom_out
\* gives 2.9.
C20_Original ==
    /\ F64Le(zoom_level, F64_TWO_NINE) =>
           ZoomOutLevel(ZoomInLevel(zoom_level)) = zoom_level
    /\ F64Le(F64_POINT_SIX, zoom_level) =>
           ZoomInLevel(ZoomOutLevel(zoom_level)) = zoom_level
    /\ zoom_level = F64_MAX =>
           ZoomOutLevel(ZoomInLevel(zoom_level)) = F64_TWO_NINE

\* Identities of the custom items of a menu tree, in tree order.
RECURSIVE ItemsOf(_, _)
ItemsOf(tree, n) ==
    IF n = 0 THEN <<>> ELSE ItemsOf(tree, n - 1) \o tree[n].items

IsCustom(item) == item.kind = "custom"

CustomIds(tree) ==
    LET cs == SelectSeq(ItemsOf(tree, Len(tree)), IsCustom)
    IN  [i \in 1..Len(cs) |-> cs[i].id]

C12_Original ==
    /\ boot.pc \in {"build", "install", "register", "running"} =>
           boot.bootstraps = 1
    /\ boot.installed # NoMenu =>
           (boot.pc \in {"register", "running"} /\ Len(boot.built) \in {0, BuildCount})
    /\ dispatcher # "unregistered" =>
           (boot.pc = "running" /\ boot.installed # NoMenu)
    /\ ev.id # "none" => (boot.installed # NoMenu /\ boot.pc = "running")
    /\ boot.cause = "menu" =>
           /\ boot.pc = "aborted" /\ boot.installed = NoMenu
           /\ dispatcher = "unregistered" /\ ev.id = "none"

\* C12 (amended): the same, with the permission bootstrap run exactly once
\* on a Linux build and not at all on the other builds.
C12_StartupOrder ==
    /\ boot.pc \in {"build", "install", "register", "running"} =>
           boot.bootstraps = IF boot.linux THEN 1 ELSE 0
    /\ boot.bootstraps <= 1
    /\ boot.installed # NoMenu =>
           (boot.pc \in {"register", "running"} /\ Len(boot.built) \in {0, BuildCount})
    /\ dispatcher # "unregistered" =>
           (boot.pc = "running" /\ boot.installed # NoMenu)
    /\ ev.id # "none" => (boot.installed # NoMenu /\ boot.pc = "running")
    /\ boot.cause = "menu" =>
           /\ boot.pc = "aborted" /\ boot.installed = NoMenu
           /\ dispatcher = "unregistered" /\ ev.id = "none"

\* The construction of the View submenu failed after the bootstrap and the
\* eight constructions before it.
C12_Witness ==
    /\ boot.cause = "menu" /\ boot.pc = "aborted"
    /\ boot.linux /\ boot.bootstraps = 1
    /\ Len(boot.built) = 8
    /\ dispatcher = "unregistered"

\* C13 (as stated): in the permission bootstrap a missing main window and a
\* missing settings object each abort startup before menu construction.
C13_Original ==
    (boot.window = "none" \/ boot.settings = "none") =>
        /\ boot.pc = "aborted" /\ boot.built = <<>> /\ boot.installed = NoMenu
        /\ dispatcher = "unregistered" /\ ev.id = "none"

\* C13 (amended): a missing main window aborts startup before menu
\* construction; a missing settings object does not: the three media
\* capabilities stay unset, the permission interceptor is registered and
\* startup goes on.
C13_BootstrapFailures ==
    /\ boot.window = "none" =>
           /\ boot.pc = "aborted" /\ boot.cause = "window"
           /\ boot.built = <<>> /\ boot.installed = NoMenu
           /\ dispatcher = "unregistered" /\ ev.id = "none"
    /\ boot.settings = "none" =>
           /\ ~boot.media /\ boot.interceptor /\ boot.bootstraps = 1
           /\ boot.cause \notin {"window", "webview"}
    /\ boot.settings = "some" => (boot.media /\ boot.interceptor)

\* Startup completed without a settings object and an event was handled.
C13_Witness ==
    /\ boot.settings = "none" /\ boot.pc = "running"
    /\ ~boot.media /\ boot.interceptor
    /\ ev.id = "zoom_in" /\ ev.window

\* C14: with overlapping invocations every access of a zoom arm to the level
\* is made by the holder of the lock, no two invocations are inside a zoom
\* arm's locked part at once, and whenever the lock is free (and once the
\* holder has written) the level is the one obtained by applying the zoom
\* operations one at a time in the order in which they took the lock.
C14_ZoomSerializable ==
    /\ \A t \in Threads : Holding(t) => lock = t
    /\ \A t \in Threads : thr[t].pc \in {"set_zoom", "unlock"} =>
                              zoom_level = lin.level
    /\ lock = "free" => zoom_level = lin.level

\* One invocation is between its read and its write of the level while the
\* other waits for the lock, away from the initial level.
C14_Witness ==
    /\ thr["t1"].pc = "write" /\ thr["t1"].id = "zoom_in"
    /\ thr["t2"].pc = "lock" /\ thr["t2"].id = "zoom_out"
    /\ zoom_level # F64_ONE

\* C15 (as stated): overlapping toggle invocations have the effect of the
\* same invocations run one at a time: when none is under way the
\* fullscreen flag and the devtools flag are those of the one-at-a-time
\* execution.
C15_Original ==
    (\A t \in Threads : ~Busy(t)) =>
        (fullscreen = lin.fullscreen /\ devtools_open = lin.devtools)

C19_ScaleFollowsLevel ==
    ((\A t \in Threads : ~(Busy(t) /\ InZoomArm(t))) /\ lin.zooms) =>
        scale = zoom_level

\* Both invocations are back to idle after zoom arms that left the level at
\* its upper bound.
C19_Witness ==
    /\ \A t \in Threads : ~Busy(t)
    /\ lin.zooms
    /\ zoom_level = F64_MAX /\ scale = F64_MAX

=============================================================================
